---------------------------- MODULE Spec2Model ----------------------------
(***************************************************************************)
(* A model of payroll_fill.py: header detection, alias normalisation,      *)
(* name parsing and the two-pass roster/transaction match, numeric         *)
(* coercion, and the batch run of main() with its effects on storage.      *)
(*                                                                         *)
(* Text is a sequence of one-character strings over printable ASCII, so    *)
(* that the regular expressions, splits and joins of the source are        *)
(* computed character by character.                                        *)
(***************************************************************************)
EXTENDS Integers, Sequences, FiniteSets, TLC

VARIABLES
    pc,          \* position of the running operation
    csv_file,    \* the transaction file on disk, as main will load it
    roster_file, \* the roster file find_roster_path will or will not find
    roster,      \* the roster table: rows [First Name, MI, Last Name]
    df_in,       \* the normalized transaction table: [has_paydate, rows]
    matched,     \* match_template_to_csv's result, empty before it ran
    confirm,     \* the text typed at the confirmation prompt
    archive_dir, \* data/archive exists
    archived,    \* number of archive copies of the input
    dist_dir,    \* dist/ exists
    dist,        \* the PayrollUpload files: date_str :> rows written
    um_report,   \* the unmatched report's rows, empty when there is none
    todo,        \* group keys main's write loop has still to visit
    written,     \* number of to_csv calls on upload files so far
    lines,       \* header detection: the file's lines
    delim,       \* header detection: the sniffed delimiter
    sniff_lines, \* header detection: the scan window
    hdr_idx,     \* header detection: the result
    columns,     \* alias normalisation: the table's column labels
    renamed,     \* alias normalisation: the labels after rename_by_alias
    x,           \* to_num: the argument
    num,         \* to_num: the result
    name_in,     \* name keys: the name fields the keys are built from
    name_out,    \* name keys: the prepared rows and their match
    df,          \* field mapping: the table given to apply_field_mapping
    filled       \* field mapping: apply_field_mapping's result

vars == <<pc, csv_file, roster_file, roster, df_in, matched, confirm, archive_dir, archived,
          dist_dir, dist, um_report, todo, written, lines, delim,
          sniff_lines, hdr_idx, columns, renamed, x, num, name_in, name_out,
          df, filled>>

mainVars == <<csv_file, roster_file, roster, df_in, matched, confirm, archive_dir, archived,
              dist_dir, dist, um_report, todo, written>>
hdrVars == <<lines, delim, sniff_lines, hdr_idx>>
aliasVars == <<columns, renamed>>
numVars == <<x, num>>
nameVars == <<name_in, name_out>>
mapVars == <<df, filled>>

---------------------------------------------------------------------------
(* Characters and text.                                                    *)

\* Printable ASCII in code-point order, 32 (space) to 126 (~); the grave
\* accent (96), which a string literal cannot hold, is a placeholder.
Ascii ==
    <<" ", "!", "\"", "#", "$", "%", "&", "'", "(", ")", "*", "+", ",", "-",
      ".", "/", "0", "1", "2", "3", "4", "5", "6", "7", "8", "9", ":", ";",
      "<", "=", ">", "?", "@", "A", "B", "C", "D", "E", "F", "G", "H", "I",
      "J", "K", "L", "M", "N", "O", "P", "Q", "R", "S", "T", "U", "V", "W",
      "X", "Y", "Z", "[", "\\", "]", "^", "_", "GRAVE", "a", "b", "c", "d", "e",
      "f", "g", "h", "i", "j", "k", "l", "m", "n", "o", "p", "q", "r", "s",
      "t", "u", "v", "w", "x", "y", "z", "{", "|", "}", "~">>

Ord(ch) == 31 + (CHOOSE i \in 1..Len(Ascii) : Ascii[i] = ch)
Chr(n) == Ascii[n - 31]

IsDigit(ch) == Ord(ch) \in 48..57
IsUpper(ch) == Ord(ch) \in 65..90
IsLower(ch) == Ord(ch) \in 97..122
IsAlpha(ch) == IsUpper(ch) \/ IsLower(ch)
IsSpace(ch) == ch = " "

\* str.upper() / str.lower() on one character.
Upper(ch) == IF IsLower(ch) THEN Chr(Ord(ch) - 32) ELSE ch
Lower(ch) == IF IsUpper(ch) THEN Chr(Ord(ch) + 32) ELSE ch

UpperStr(s) == [i \in 1..Len(s) |-> Upper(s[i])]
LowerStr(s) == [i \in 1..Len(s) |-> Lower(s[i])]

\* re.sub(r"[...]", "", s) for a character class given as a set.
RemoveChars(s, class) == SelectSeq(s, LAMBDA ch : ch \notin class)

RECURSIVE LStrip(_)
LStrip(s) ==
    IF s # <<>> /\ IsSpace(Head(s)) THEN LStrip(Tail(s)) ELSE s

RECURSIVE RStrip(_)
RStrip(s) ==
    IF s # <<>> /\ IsSpace(s[Len(s)])
    THEN RStrip(SubSeq(s, 1, Len(s) - 1))
    ELSE s

\* str.strip()
Strip(s) == LStrip(RStrip(s))

\* str.split(sep) for a one-character separator: always at least one part.
RECURSIVE SplitAt(_, _, _, _)
SplitAt(s, sep, cur, acc) ==
    IF s = <<>> THEN Append(acc, cur)
    ELSE IF Head(s) = sep
         THEN SplitAt(Tail(s), sep, <<>>, Append(acc, cur))
         ELSE SplitAt(Tail(s), sep, Append(cur, Head(s)), acc)

SplitOn(s, sep) == SplitAt(s, sep, <<>>, <<>>)

\* str.split(): the maximal runs of non-whitespace characters.
SplitWs(s) == SelectSeq(SplitOn(s, " "), LAMBDA t : t # <<>>)

\* sep.join(parts)
RECURSIVE Join(_, _)
Join(parts, sep) ==
    IF parts = <<>> THEN <<>>
    ELSE IF Len(parts) = 1 THEN parts[1]
    ELSE parts[1] \o sep \o Join(Tail(parts), sep)

\* Python's < on str: lexicographic by code point.
RECURSIVE StrLess(_, _)
StrLess(a, b) ==
    IF b = <<>> THEN FALSE
    ELSE IF a = <<>> THEN TRUE
    ELSE IF Head(a) # Head(b) THEN Ord(Head(a)) < Ord(Head(b))
    ELSE StrLess(Tail(a), Tail(b))

Range(f) == {f[i] : i \in DOMAIN f}

\* The sequences over S of length at most n.
SeqUpTo(S, n) == UNION {[1..k -> S] : k \in 0..n}

---------------------------------------------------------------------------
(* Name parsing and matching (template <-> CSV).                           *)

\* A missing cell of a table read with dtype=str (a float NaN), and the
\* text astype(str) makes of it.
NaN == <<"NaN">>
AsStr(v) == IF v = NaN THEN <<"n", "a", "n">> ELSE v

\* The right-hand columns of a left-merged row with no partner (all NaN).
NoRow == 0

_SUFFIXES ==
    {<<"J", "R">>, <<"S", "R">>, <<"I", "I">>, <<"I", "I", "I">>,
     <<"I", "V">>, <<"V">>}

_clean_token(s) ==
    RemoveChars(Join(SplitWs(Strip(s)), <<" ">>), {".", ","})

_strip_suffix_kept(last) ==
    IF last = <<>> THEN <<>>
    ELSE Join(SplitWs(_clean_token(last)), <<" ">>)

_strip_suffix(last) ==
    IF last = <<>> THEN <<>>
    ELSE LET parts == SplitWs(_clean_token(last))
             n == Len(parts)
         IN  IF n > 0 /\ UpperStr(parts[n]) \in _SUFFIXES
             THEN Join(SubSeq(parts, 1, n - 1), <<" ">>)
             ELSE Join(parts, <<" ">>)

_norm_key_part(s) ==
    RemoveChars(UpperStr(_clean_token(s)), {" ", "'", "-"})

\* re.fullmatch(r"[A-Za-z]\.?", cand)
IsInitial(cand) ==
    \/ Len(cand) = 1 /\ IsAlpha(cand[1])
    \/ Len(cand) = 2 /\ IsAlpha(cand[1]) /\ cand[2] = "."

\* tokens[0] of an empty list.
IndexError == <<"IndexError">>

\* The pair <<first, mi>>, or IndexError: a field of punctuation tokens
\* only cleans to a blank, non-empty text that has no token.
_extract_first_and_mi_from_csv(first_field) ==
    LET s == _clean_token(first_field)
        tokens == SplitWs(s)
    IN  IF s = <<>> THEN <<<<>>, <<>>>>
        ELSE IF tokens = <<>> THEN IndexError
        ELSE IF Len(tokens) >= 2
             THEN IF IsInitial(tokens[2])
                  THEN <<tokens[1], <<Upper(tokens[2][1])>>>>
                  ELSE <<Join(tokens, <<" ">>), <<>>>>
             ELSE <<tokens[1], <<>>>>

\* One roster row with its derived columns.
prepare_template_names(r) ==
    LET first == _clean_token(AsStr(r.T_FIRST))
        mi == LET m == AsStr(r.T_MI)
              IN  IF m = <<>> THEN <<>> ELSE <<Upper(m[1])>>
        last == _strip_suffix(AsStr(r.T_LAST))
        loose == _norm_key_part(last) \o <<"|">> \o _norm_key_part(first)
    IN  [_T_FIRST |-> first, _T_MI |-> mi, _T_LAST |-> last,
         _T_KEY_LOOSE |-> loose, _T_KEY_STRICT |-> loose \o <<"|">> \o mi]

\* One transaction row with its derived columns; raised when the split
\* of its first-name field raises.
prepare_csv_names(r) ==
    LET last == _strip_suffix(AsStr(r.C_LAST))
        parsed == _extract_first_and_mi_from_csv(AsStr(r.C_FIRST))
        first == _clean_token(parsed[1])
        loose == _norm_key_part(last) \o <<"|">> \o _norm_key_part(first)
    IN  IF parsed = IndexError THEN [raised |-> TRUE]
        ELSE [raised |-> FALSE,
              _C_FIRST |-> first, _C_MI |-> parsed[2], _C_LAST |-> last,
              _C_KEY_LOOSE |-> loose,
              _C_KEY_STRICT |-> loose \o <<"|">> \o parsed[2]]

\* DataFrame.drop_duplicates(key) on the rows ix (row numbers, in order):
\* the first row of each key value is kept.
RECURSIVE DropFrom(_, _, _)
DropFrom(ix, key, seen) ==
    IF ix = <<>> THEN <<>>
    ELSE IF key[Head(ix)] \in seen
         THEN DropFrom(Tail(ix), key, seen)
         ELSE <<Head(ix)>> \o DropFrom(Tail(ix), key, seen \cup {key[Head(ix)]})

drop_duplicates_keep_last(ix, key) ==
    SelectSeq(ix, LAMBDA i :
        \A n \in 1..Len(ix) : (ix[n] > i) => key[ix[n]] # key[i])

drop_duplicates(ix, key) == DropFrom(ix, key, {})

\* left.merge(right, how="left", left_on=lkey, right_on=rkey): the left
\* rows in order, each once per right row of equal key, or once with the
\* right-hand columns missing.
RECURSIVE merge(_, _, _, _, _)
merge(left, lkey, right, rkey, label) ==
    IF left = <<>> THEN <<>>
    ELSE LET i == Head(left)
             hits == SelectSeq(right, LAMBDA j : rkey[j] = lkey[i])
             rows == IF hits = <<>>
                     THEN <<[t |-> i, c |-> NoRow, __MT__ |-> label]>>
                     ELSE [k \in 1..Len(hits) |->
                              [t |-> i, c |-> hits[k], __MT__ |-> label]]
         IN  rows \o merge(Tail(left), lkey, right, rkey, label)

\* The row numbers 1..n of a table that satisfy a test, in order.
Rows(n, Test(_)) == SelectSeq([i \in 1..n |-> i], Test)

\* Column k of a table of records, as a sequence.
Col(tab, k) == [i \in 1..Len(tab) |-> tab[i][k]]

\* Strict pass: roster rows and transaction rows with a middle initial,
\* the latter deduplicated by strict key, left-joined on the strict key.
strict_pass_loose_key(t, c) ==
    LET t_strict == Rows(Len(t), LAMBDA i : t[i]._T_MI # <<>>)
        c_strict ==
            drop_duplicates(Rows(Len(c), LAMBDA j : c[j]._C_MI # <<>>),
                            Col(c, "_C_KEY_STRICT"))
    IN  merge(t_strict, Col(t, "_T_KEY_LOOSE"),
              c_strict, Col(c, "_C_KEY_LOOSE"), "strict")

strict_pass(t, c) ==
    LET t_strict == Rows(Len(t), LAMBDA i : t[i]._T_MI # <<>>)
        c_strict ==
            drop_duplicates(Rows(Len(c), LAMBDA j : c[j]._C_MI # <<>>),
                            Col(c, "_C_KEY_STRICT"))
    IN  merge(t_strict, Col(t, "_T_KEY_STRICT"),
              c_strict, Col(c, "_C_KEY_STRICT"), "strict")

\* Remainder selection: the roster rows whose strict key is not among the
\* strict pass's rows (whether or not those found a partner).
remainder_only_joined(t, t1) ==
    LET matched_keys ==
            {t[t1[k].t]._T_KEY_STRICT :
                k \in {m \in 1..Len(t1) : t1[m].c # NoRow}}
    IN  Rows(Len(t), LAMBDA i : t[i]._T_KEY_STRICT \notin matched_keys)

remainder(t, t1) ==
    LET matched_keys ==
            IF t1 # <<>>
            THEN {t[t1[k].t]._T_KEY_STRICT : k \in 1..Len(t1)}
            ELSE {}
    IN  Rows(Len(t), LAMBDA i : t[i]._T_KEY_STRICT \notin matched_keys)

\* Loose pass: the remaining roster rows left-joined on the loose key to
\* the whole transaction table deduplicated by loose key.
loose_pass(t, c, t_rem) ==
    LET c_loose == drop_duplicates(Rows(Len(c), LAMBDA j : TRUE),
                                   Col(c, "_C_KEY_LOOSE"))
    IN  merge(t_rem, Col(t, "_T_KEY_LOOSE"),
              c_loose, Col(c, "_C_KEY_LOOSE"), "loose")

\* Combine: both passes' rows, a row with no transaction columns relabelled.
combine(t1, fill) ==
    LET both == t1 \o fill
    IN  [k \in 1..Len(both) |->
            [t |-> both[k].t, c |-> both[k].c,
             _MATCH_TYPE |-> IF both[k].c = NoRow THEN "unmatched"
                             ELSE both[k].__MT__]]

\* The result table: one record per output row, t the roster row it came
\* from, c the transaction row whose columns it carries (NoRow: none); or
\* the exception prepare_csv_names raised.
match_template_to_csv(df_t, df_c) ==
    LET t == [i \in 1..Len(df_t) |-> prepare_template_names(df_t[i])]
        c == [j \in 1..Len(df_c) |-> prepare_csv_names(df_c[j])]
        t1 == strict_pass(t, c)
        t_rem == remainder(t, t1)
        fill == loose_pass(t, c, t_rem)
    IN  IF \E j \in 1..Len(df_c) : c[j].raised THEN IndexError
        ELSE combine(t1, fill)

---------------------------------------------------------------------------
(* Header detection and alias normalisation.                               *)

\* re.sub(r"[^0-9a-z]+", "", str(s).lower())
norm(s) == SelectSeq(LowerStr(s), LAMBDA ch : IsDigit(ch) \/ IsLower(ch))

\* EXPECT_NAMES, in order.
EXPECT_NAMES ==
    <<
     \* Employee Last Name
     <<"E", "m", "p", "l", "o", "y", "e", "e", " ", "L", "a", "s", "t", " ",
      "N", "a", "m", "e">>,
     \* Employee First Name
     <<"E", "m", "p", "l", "o", "y", "e", "e", " ", "F", "i", "r", "s", "t",
      " ", "N", "a", "m", "e">>,
     \* 401k
     <<"4", "0", "1", "k">>,
     \* 401k Catchup
     <<"4", "0", "1", "k", " ", "C", "a", "t", "c", "h", "u", "p">>,
     \* Roth 401K
     <<"R", "o", "t", "h", " ", "4", "0", "1", "K">>,
     \* Roth Catchup
     <<"R", "o", "t", "h", " ", "C", "a", "t", "c", "h", "u", "p">>,
     \* 401K Match 2
     <<"4", "0", "1", "K", " ", "M", "a", "t", "c", "h", " ", "2">>,
     \* Gross Pay
     <<"G", "r", "o", "s", "s", " ", "P", "a", "y">>,
     \* Regular Hours
     <<"R", "e", "g", "u", "l", "a", "r", " ", "H", "o", "u", "r", "s">>,
     \* Overtime Hours
     <<"O", "v", "e", "r", "t", "i", "m", "e", " ", "H", "o", "u", "r",
      "s">>,
     \* Vacation/PTO Hours
     <<"V", "a", "c", "a", "t", "i", "o", "n", "/", "P", "T", "O", " ", "H",
      "o", "u", "r", "s">>,
     \* Pay Date
     <<"P", "a", "y", " ", "D", "a", "t", "e">>
    >>

\* ALIASES, in the dict's order: each canonical name with its listed
\* spellings.
ALIASES ==
    <<
     \* Roth 401K: Roth 401k, Roth401k, Roth-401k
     [canon |->
        <<"R", "o", "t", "h", " ", "4", "0", "1", "K">>,
      aliases |-> <<
        <<"R", "o", "t", "h", " ", "4", "0", "1", "k">>,
        <<"R", "o", "t", "h", "4", "0", "1", "k">>,
        <<"R", "o", "t", "h", "-", "4", "0", "1", "k">>>>],
     \* 401k: 401(k), 401 k, Pre tax 401k, Pre-tax 401k, 401K
     [canon |->
        <<"4", "0", "1", "k">>,
      aliases |-> <<
        <<"4", "0", "1", "(", "k", ")">>,
        <<"4", "0", "1", " ", "k">>,
        <<"P", "r", "e", " ", "t", "a", "x", " ", "4", "0", "1", "k">>,
        <<"P", "r", "e", "-", "t", "a", "x", " ", "4", "0", "1", "k">>,
        <<"4", "0", "1", "K">>>>],
     \* 401k Catchup: 401k Catch-up, 401(k) Catchup, Pre-Tax Catchup, Pre Tax Catchup, Pre-tax Catchup
     [canon |->
        <<"4", "0", "1", "k", " ", "C", "a", "t", "c", "h", "u", "p">>,
      aliases |-> <<
        <<"4", "0", "1", "k", " ", "C", "a", "t", "c", "h", "-", "u", "p">>,
        <<"4", "0", "1", "(", "k", ")", " ", "C", "a", "t", "c", "h", "u",
         "p">>,
        <<"P", "r", "e", "-", "T", "a", "x", " ", "C", "a", "t", "c", "h",
         "u", "p">>,
        <<"P", "r", "e", " ", "T", "a", "x", " ", "C", "a", "t", "c", "h",
         "u", "p">>,
        <<"P", "r", "e", "-", "t", "a", "x", " ", "C", "a", "t", "c", "h",
         "u", "p">>>>],
     \* Roth Catchup: Roth 401k Catchup, Roth Catch-up, Roth Catch up
     [canon |->
        <<"R", "o", "t", "h", " ", "C", "a", "t", "c", "h", "u", "p">>,
      aliases |-> <<
        <<"R", "o", "t", "h", " ", "4", "0", "1", "k", " ", "C", "a", "t",
         "c", "h", "u", "p">>,
        <<"R", "o", "t", "h", " ", "C", "a", "t", "c", "h", "-", "u", "p">>,
        <<"R", "o", "t", "h", " ", "C", "a", "t", "c", "h", " ", "u", "p">>>>],
     \* 401K Match 2: 401k Match2, 401K Match2, Safe Harbor Non Elective, Safe Harbor, Safe Harbor Match
     [canon |->
        <<"4", "0", "1", "K", " ", "M", "a", "t", "c", "h", " ", "2">>,
      aliases |-> <<
        <<"4", "0", "1", "k", " ", "M", "a", "t", "c", "h", "2">>,
        <<"4", "0", "1", "K", " ", "M", "a", "t", "c", "h", "2">>,
        <<"S", "a", "f", "e", " ", "H", "a", "r", "b", "o", "r", " ", "N",
         "o", "n", " ", "E", "l", "e", "c", "t", "i", "v", "e">>,
        <<"S", "a", "f", "e", " ", "H", "a", "r", "b", "o", "r">>,
        <<"S", "a", "f", "e", " ", "H", "a", "r", "b", "o", "r", " ", "M",
         "a", "t", "c", "h">>>>],
     \* Gross Pay: Gross, Gross Wages, Current Period Compensation
     [canon |->
        <<"G", "r", "o", "s", "s", " ", "P", "a", "y">>,
      aliases |-> <<
        <<"G", "r", "o", "s", "s">>,
        <<"G", "r", "o", "s", "s", " ", "W", "a", "g", "e", "s">>,
        <<"C", "u", "r", "r", "e", "n", "t", " ", "P", "e", "r", "i", "o",
         "d", " ", "C", "o", "m", "p", "e", "n", "s", "a", "t", "i", "o",
         "n">>>>],
     \* Regular Hours: Reg Hours, Base Hours
     [canon |->
        <<"R", "e", "g", "u", "l", "a", "r", " ", "H", "o", "u", "r", "s">>,
      aliases |-> <<
        <<"R", "e", "g", " ", "H", "o", "u", "r", "s">>,
        <<"B", "a", "s", "e", " ", "H", "o", "u", "r", "s">>>>],
     \* Overtime Hours: OT Hours
     [canon |->
        <<"O", "v", "e", "r", "t", "i", "m", "e", " ", "H", "o", "u", "r",
         "s">>,
      aliases |-> <<
        <<"O", "T", " ", "H", "o", "u", "r", "s">>>>],
     \* Vacation/PTO Hours: PTO Hours, Vacation Hours, Paid Time Off, Leave Hours
     [canon |->
        <<"V", "a", "c", "a", "t", "i", "o", "n", "/", "P", "T", "O", " ",
         "H", "o", "u", "r", "s">>,
      aliases |-> <<
        <<"P", "T", "O", " ", "H", "o", "u", "r", "s">>,
        <<"V", "a", "c", "a", "t", "i", "o", "n", " ", "H", "o", "u", "r",
         "s">>,
        <<"P", "a", "i", "d", " ", "T", "i", "m", "e", " ", "O", "f", "f">>,
        <<"L", "e", "a", "v", "e", " ", "H", "o", "u", "r", "s">>>>],
     \* Employee First Name: Emp First Name, Employee First, First
     [canon |->
        <<"E", "m", "p", "l", "o", "y", "e", "e", " ", "F", "i", "r", "s",
         "t", " ", "N", "a", "m", "e">>,
      aliases |-> <<
        <<"E", "m", "p", " ", "F", "i", "r", "s", "t", " ", "N", "a", "m",
         "e">>,
        <<"E", "m", "p", "l", "o", "y", "e", "e", " ", "F", "i", "r", "s",
         "t">>,
        <<"F", "i", "r", "s", "t">>>>],
     \* Employee Last Name: Emp Last Name, Employee Last, Last
     [canon |->
        <<"E", "m", "p", "l", "o", "y", "e", "e", " ", "L", "a", "s", "t", 
         " ", "N", "a", "m", "e">>,
      aliases |-> <<
        <<"E", "m", "p", " ", "L", "a", "s", "t", " ", "N", "a", "m", "e">>,
        <<"E", "m", "p", "l", "o", "y", "e", "e", " ", "L", "a", "s", "t">>,
        <<"L", "a", "s", "t">>>>],
     \* Pay Date: Paydate, Pay Dt, Check Date
     [canon |->
        <<"P", "a", "y", " ", "D", "a", "t", "e">>,
      aliases |-> <<
        <<"P", "a", "y", "d", "a", "t", "e">>,
        <<"P", "a", "y", " ", "D", "t">>,
        <<"C", "h", "e", "c", "k", " ", "D", "a", "t", "e">>>>]
    >>

SniffLinesDefault == 200

\* The normalized non-empty cells of one line (cellsn).
Cellsn(line, d) ==
    LET cells == SplitOn(line, d)
        kept == SelectSeq(cells, LAMBDA c : Strip(c) # <<>>)
    IN  [k \in 1..Len(kept) |-> norm(Strip(kept[k]))]

Hits(line, d, exp) ==
    Cardinality({k \in DOMAIN Cellsn(line, d) : Cellsn(line, d)[k] \in exp})

Div(line, d) == Cardinality(Range(Cellsn(line, d)))

\* Python's > on pairs.
PairGreaterOrEqual(a, b) ==
    a[1] > b[1] \/ (a[1] = b[1] /\ a[2] >= b[2])

PairGreater(a, b) ==
    a[1] > b[1] \/ (a[1] = b[1] /\ a[2] > b[2])

\* The scan loop from line i (zero-based) on; best is <<hits, div, idx>>,
\* idx -1 standing for None.
RECURSIVE Scan(_, _, _, _, _, _)
Scan(ls, d, exp, window, i, best) ==
    IF i >= Len(ls) \/ i >= window THEN best
    ELSE LET hits == Hits(ls[i + 1], d, exp)
             div == Div(ls[i + 1], d)
         IN  IF PairGreater(<<hits, div>>, <<best[1], best[2]>>)
             THEN Scan(ls, d, exp, window, i + 1, <<hits, div, i>>)
             ELSE Scan(ls, d, exp, window, i + 1, best)

\* ls: the file's lines without their line ends; d: the delimiter the
\* sniffer settled on (a comma when it failed).
detect_header_row(ls, d, expect_names, window) ==
    LET exp == {norm(n) : n \in Range(expect_names)}
        best == Scan(ls, d, exp, window, 0, <<-1, -1, -1>>)
    IN  IF best[3] = -1
        THEN [raised |-> TRUE, best_idx |-> -1]
        ELSE [raised |-> FALSE, best_idx |-> best[3]]

\* build_alias_map: for each canonical name, in order, the set of its
\* normalized spellings. (Each list is built from a set, so the order of
\* its entries is not fixed; callers draw it.)
build_alias_map(canonical_names, aliases_cfg) ==
    LET Cfg(n) == {a \in Range(aliases_cfg) : a.canon = n}
        AliasesOf(n) == UNION {Range(a.aliases) : a \in Cfg(n)}
        extra == SelectSeq([k \in 1..Len(aliases_cfg) |-> aliases_cfg[k].canon],
                           LAMBDA n : n \notin Range(canonical_names))
        keys == canonical_names \o extra
    IN  [k \in 1..Len(keys) |->
            [canon |-> keys[k],
             variants |-> {norm(keys[k])} \cup
                          {norm(a) : a \in AliasesOf(keys[k])}]]

\* current = {norm(c): c for c in df.columns}: the last column of each
\* normalized label.
Current(cols) ==
    [v \in {norm(c) : c \in Range(cols)} |->
        cols[CHOOSE i \in DOMAIN cols :
                /\ norm(cols[i]) = v
                /\ \A j \in DOMAIN cols : norm(cols[j]) = v => j <= i]]

\* The variant lists' orders a run can have: for each canonical name, which
\* of its variants present in the table the inner loop meets first
\* (<<>>: none is present).
RECURSIVE FirstHitsUpTo(_, _, _)
FirstHitsUpTo(cols, alias_map, n) ==
    IF n = 0 THEN {<<>>}
    ELSE LET present == alias_map[n].variants \cap DOMAIN Current(cols)
             here == IF present = {} THEN {<<>>} ELSE present
         IN  {Append(f, v) : f \in FirstHitsUpTo(cols, alias_map, n - 1),
                             v \in here}

FirstHits(cols, alias_map) == FirstHitsUpTo(cols, alias_map, Len(alias_map))

\* rename_by_alias with the variants' order given by first (see FirstHits).
rename_by_alias(cols, alias_map, first) ==
    LET current == Current(cols)
        Canons(c) == {k \in DOMAIN alias_map :
                         first[k] # <<>> /\ current[first[k]] = c}
        \* rename[c]: the last canonical name assigned to column label c
        Renamed(c) ==
            IF Canons(c) = {} THEN c
            ELSE alias_map[CHOOSE k \in Canons(c) :
                              \A m \in Canons(c) : m <= k].canon
    IN  [i \in DOMAIN cols |-> Renamed(cols[i])]

---------------------------------------------------------------------------
(* Numeric coercion.                                                       *)

\* A float: kind "float" with value (-1)^neg * m * 10^e, m without trailing
\* zeros (binary rounding is not modelled), or kind "inf" or "nan".
Zero == [kind |-> "float", neg |-> FALSE, m |-> 0, e |-> 0]

RECURSIVE Normalize(_, _, _)
Normalize(neg, m, e) ==
    IF m = 0 THEN Zero
    ELSE IF m % 10 = 0 THEN Normalize(neg, m \div 10, e + 1)
    ELSE [kind |-> "float", neg |-> neg, m |-> m, e |-> e]

AllDigits(s) == \A k \in DOMAIN s : IsDigit(s[k])

RECURSIVE DigitsValue(_)
DigitsValue(s) ==
    IF s = <<>> THEN 0
    ELSE 10 * DigitsValue(SubSeq(s, 1, Len(s) - 1)) + (Ord(s[Len(s)]) - 48)

\* float(s) for a text without surrounding whitespace; kind "error" stands
\* for ValueError.
PyFloat(s) ==
    LET Err == [kind |-> "error", neg |-> FALSE, m |-> 0, e |-> 0]
        signed == s # <<>> /\ s[1] \in {"+", "-"}
        neg == s # <<>> /\ s[1] = "-"
        body == IF signed THEN Tail(s) ELSE s
        lb == LowerStr(body)
        \* an underscore only between two digits
        usOk == \A k \in DOMAIN body :
                    body[k] = "_" =>
                        /\ k > 1 /\ k < Len(body)
                        /\ IsDigit(body[k - 1]) /\ IsDigit(body[k + 1])
        plain == RemoveChars(body, {"_"})
        epos == {k \in DOMAIN plain : plain[k] \in {"e", "E"}}
        cut == IF epos = {} THEN Len(plain) + 1
               ELSE CHOOSE k \in epos : \A m \in epos : k <= m
        mant == SubSeq(plain, 1, cut - 1)
        expo == SubSeq(plain, cut + 1, Len(plain))
        esigned == expo # <<>> /\ expo[1] \in {"+", "-"}
        edigits == IF esigned THEN Tail(expo) ELSE expo
        eOk == epos = {} \/ (edigits # <<>> /\ AllDigits(edigits))
        ev == IF epos = {} THEN 0
              ELSE IF expo[1] = "-" THEN 0 - DigitsValue(edigits)
              ELSE DigitsValue(edigits)
        parts == SplitOn(mant, ".")
        intp == parts[1]
        fracp == IF Len(parts) = 2 THEN parts[2] ELSE <<>>
        mOk == /\ Len(parts) <= 2
               /\ AllDigits(intp) /\ AllDigits(fracp)
               /\ Len(intp) + Len(fracp) >= 1
    IN  IF lb \in {<<"i", "n", "f">>,
                   <<"i", "n", "f", "i", "n", "i", "t", "y">>}
        THEN [kind |-> "inf", neg |-> neg, m |-> 0, e |-> 0]
        ELSE IF lb = <<"n", "a", "n">>
        THEN [kind |-> "nan", neg |-> FALSE, m |-> 0, e |-> 0]
        ELSE IF usOk /\ eOk /\ mOk
        THEN Normalize(neg, DigitsValue(intp \o fracp), ev - Len(fracp))
        ELSE Err

to_num(v) ==
    IF v = NaN THEN Zero
    ELSE LET s == Strip(v)
             f == PyFloat(RemoveChars(s, {",", "$", "%", " "}))
         IN  IF s = <<>> THEN Zero
             ELSE IF f.kind = "error" THEN Zero
             ELSE f

---------------------------------------------------------------------------
(* Field mapping of the check date, grouping and output names.             *)

\* The float 0.0 that apply_field_mapping fills a missing raw column with.
Float0 == <<"float 0.0">>

\* str(value) of a check date.
StrOf(v) ==
    IF v = NaN THEN <<"n", "a", "n">>
    ELSE IF v = Float0 THEN <<"0", ".", "0">>
    ELSE v

\* The Check Date of output row k after apply_field_mapping: the raw Pay
\* Date joined to it, or 0.0 in every row when the table has no such column.
CheckDate(m, tab, k) ==
    IF ~tab.has_paydate THEN Float0
    ELSE IF m[k].c = NoRow THEN NaN
    ELSE tab.rows[m[k].c].RAW_PAYDATE

DaysIn(y, mo) ==
    IF mo \in {4, 6, 9, 11} THEN 30
    ELSE IF mo # 2 THEN 31
    ELSE IF y % 4 = 0 /\ (y % 100 # 0 \/ y % 400 = 0) THEN 29
    ELSE 28

\* datetime.strptime(s, "%Y-%m-%d"): <<year, month, day>>, or <<>> for
\* ValueError. %Y is four digits, %m and %d one or two (the day also a
\* space and a digit), and the date must exist.
strptime(s) ==
    LET parts == SplitOn(s, "-")
        ys == parts[1]
        ms == parts[2]
        ds0 == parts[3]
        ds == IF Len(ds0) = 2 /\ ds0[1] = " " THEN Tail(ds0) ELSE ds0
        shaped == /\ Len(parts) = 3
                  /\ Len(ys) = 4 /\ AllDigits(ys)
                  /\ Len(ms) \in {1, 2} /\ AllDigits(ms)
                  /\ Len(ds) \in {1, 2} /\ AllDigits(ds)
        y == DigitsValue(ys)
        mo == DigitsValue(ms)
        d == DigitsValue(ds)
    IN  IF shaped /\ y >= 1 /\ mo \in 1..12 /\ d >= 1 /\ d <= DaysIn(y, mo)
        THEN <<y, mo, d>>
        ELSE <<>>

\* The decimal digits of n, zero-padded to the given width.
RECURSIVE Padded(_, _)
Padded(n, width) ==
    IF width = 0 THEN <<>>
    ELSE Append(Padded(n \div 10, width - 1), Chr(48 + (n % 10)))

\* date.isoformat()
isoformat(dt) ==
    Padded(dt[1], 4) \o <<"-">> \o Padded(dt[2], 2) \o <<"-">> \o Padded(dt[3], 2)

\* The date part of an output file's name for one group key.
date_str(check_date) ==
    LET dt == strptime(Strip(StrOf(check_date)))
    IN  IF dt = <<>> THEN <<"u", "n", "k", "n", "o", "w", "n">>
        ELSE isoformat(dt)

\* The columns of the upload frame, in order.
FINAL_COLUMNS ==
    <<"SSN", "First Name", "MI", "Last Name", "Check Date",
      "Pretax", "Pre-Tax Catchup", "Roth", "Roth Catchup",
      "Safe Harbor Non-Elective",
      "Current Period Compensation", "Current Period Hours Worked",
      "Address 1", "Address 2", "City", "State", "Zip",
      "Date of Birth", "Date of Hire", "Date of Term", "Rehire Date",
      "Email Address", "Profit Share">>

T_CHECKDATE == "Check Date"

\* upload = active[FINAL_COLUMNS]: the frame has exactly these columns,
\* whatever the transaction table had.
upload_columns == FINAL_COLUMNS

\* The output rows of the given labels, in order (row numbers of matched).
Labelled(m, labels) == Rows(Len(m), LAMBDA k : m[k]._MATCH_TYPE \in labels)

\* upload.groupby(T_CHECKDATE, dropna=False): the distinct check dates in
\* sorted order, a missing date last.
KeyLess(a, b) ==
    IF a = NaN THEN FALSE
    ELSE IF b = NaN THEN TRUE
    ELSE StrLess(StrOf(a), StrOf(b))

RECURSIVE SortKeys(_)
SortKeys(S) ==
    IF S = {} THEN <<>>
    ELSE LET lo == CHOOSE a \in S : \A b \in S \ {a} : KeyLess(a, b)
         IN  <<lo>> \o SortKeys(S \ {lo})

groups(m, tab) ==
    LET active == Labelled(m, {"strict", "loose"})
    IN  SortKeys({CheckDate(m, tab, active[n]) : n \in DOMAIN active})

\* The rows of one group, in order.
group(m, tab, key) ==
    SelectSeq(Labelled(m, {"strict", "loose"}),
              LAMBDA k : CheckDate(m, tab, k) = key)

\* path.write: the files with the one of the given name created or replaced.
to_csv(files, name, rows) ==
    [n \in DOMAIN files \cup {name} |-> IF n = name THEN rows ELSE files[n]]

\* The answer as main compares it, and where main goes after the prompt.
after_confirm_no_return(c) == "archive"

after_confirm(c) ==
    IF c \notin {<<>>, <<"y">>, <<"y", "e", "s">>} THEN "declined"
    ELSE "archive"

\* shutil.copy2 into the archive directory: one more copy there.
copy2_skipped(n) == n

copy2(n) == n + 1

\* Where main goes after find_roster_path.
after_find_roster_no_return(found) == "match"

after_find_roster(found) == IF ~found THEN "no_roster" ELSE "match"

---------------------------------------------------------------------------
(* Bounds and the tables the operations are run on.                        *)

MaxRoster == 2
MaxCsv == 2

Jo == <<"J", "o">>
JoBar == <<"J", "o", "|">>
JoA == <<"J", "o", " ", "A">>
JoB == <<"J", "o", " ", "B", ".">>
Ng == <<"N", "g">>
NgJr == <<"N", "g", " ", "J", "r">>

RosterRow(first, mi, last) == [T_FIRST |-> first, T_MI |-> mi, T_LAST |-> last]
CsvRow(last, first, paydate) ==
    [C_LAST |-> last, C_FIRST |-> first, RAW_PAYDATE |-> paydate]

\* Roster rows given to match_template_to_csv.
MatchRosterRows ==
    {RosterRow(Jo, <<>>, Ng), RosterRow(Jo, <<"a">>, Ng),
     RosterRow(Jo, <<>>, NgJr), RosterRow(JoBar, <<>>, Ng),
     RosterRow(Jo, <<"|">>, Ng)}

\* Transaction rows given to match_template_to_csv.
MatchCsvRows ==
    {CsvRow(Ng, Jo, NaN), CsvRow(Ng, JoA, NaN), CsvRow(NgJr, JoA, NaN),
     CsvRow(Ng, JoB, NaN)}

\* A file that is not there.
NoFile == [exists |-> FALSE, empty |-> FALSE, has_paydate |-> FALSE,
           rows |-> <<>>]

D0905 == <<"2", "0", "2", "5", "-", "0", "9", "-", "0", "5">>
D95 == <<"2", "0", "2", "5", "-", "9", "-", "5">>

\* Rows of the roster file and of the transaction file of a run of main.
MainRosterRows == {RosterRow(Jo, <<>>, Ng), RosterRow(Jo, <<"a">>, Ng)}
MainCsvRows ==
    {CsvRow(Ng, f, d) : f \in {Jo, JoA}, d \in {D0905, D95, NaN}}

\* The transaction file: missing, without any line, or a table with or
\* without a pay-date column.
CsvFiles ==
    {NoFile,
     [exists |-> TRUE, empty |-> TRUE, has_paydate |-> FALSE, rows |-> <<>>]}
    \cup {[exists |-> TRUE, empty |-> FALSE, has_paydate |-> TRUE, rows |-> r] :
             r \in SeqUpTo(MainCsvRows, MaxCsv)}
    \cup {[exists |-> TRUE, empty |-> FALSE, has_paydate |-> FALSE, rows |-> r] :
             r \in SeqUpTo({CsvRow(Ng, Jo, NaN), CsvRow(Ng, JoA, NaN)}, MaxCsv)}

RosterFiles ==
    {NoFile}
    \cup {[exists |-> TRUE, empty |-> FALSE, has_paydate |-> FALSE, rows |-> r] :
             r \in SeqUpTo(MainRosterRows, MaxRoster)}

\* What the user may type at the confirmation prompt.
Answers == {<<>>, <<" ", "Y">>, <<"y", "e", "s">>, <<"n">>, <<"N", "o">>}

MaxLines == 3
MaxCols == 3
MaxNumLen == 3

\* Lines of a file given to detect_header_row: a blank line, a banner, a
\* row of dashes, a data row, and header rows with one and two hits.
HeaderLines ==
    {<<>>,
     <<"R", "e", "p", "o", "r", "t">>,
     <<"-", "-", ",", "*", "*">>,
     <<"x", ",", "y">>,
     <<"G", "r", "o", "s", "s", " ", "P", "a", "y", ",", "x">>,
     <<"P", "a", "y", " ", "D", "a", "t", "e", ",", " ", "4", "0", "1", "K">>,
     <<"4", "0", "1", "k", ";", "P", "a", "y", "-", "d", "a", "t", "e">>}

\* Column labels of a table given to rename_by_alias.
ColumnLabels ==
    {<<"G", "r", "o", "s", "s">>,
     <<"G", "r", "o", "s", "s", " ", "P", "a", "y">>,
     <<"g", "r", "o", "s", "s", " ", "p", "a", "y">>,
     <<"P", "a", "y", "d", "a", "t", "e">>,
     <<"N", "o", "t", "e">>}

\* Characters of the texts given to to_num.
NumChars == {"0", "1", ".", ",", "$", "%", " ", "-", "i", "n", "f"}

\* The values of the variables an operation does not use.
IdleMain ==
    /\ csv_file = NoFile
    /\ roster_file = NoFile
    /\ confirm = <<>>
    /\ archive_dir = FALSE
    /\ archived = 0
    /\ dist_dir = FALSE
    /\ dist = <<>>
    /\ um_report = <<>>
    /\ todo = <<>>
    /\ written = 0
IdleHdr ==
    /\ lines = <<>>
    /\ delim = ","
    /\ sniff_lines = 0
    /\ hdr_idx = [raised |-> FALSE, best_idx |-> -1]
IdleAlias == columns = <<>> /\ renamed = <<>>
IdleNum == x = NaN /\ num = [kind |-> "none", v |-> 0]
IdleNames == name_in = <<>> /\ name_out = <<>>
IdleMap == df = <<>> /\ filled = <<>>

---------------------------------------------------------------------------
(* match_template_to_csv on its own.                                       *)

InitMatch ==
    /\ pc = "match"
    /\ roster \in SeqUpTo(MatchRosterRows, MaxRoster)
    /\ \E rows \in SeqUpTo(MatchCsvRows, MaxCsv) :
           df_in = [has_paydate |-> FALSE, rows |-> rows]
    /\ matched = <<>>
    /\ IdleMain /\ IdleHdr /\ IdleAlias /\ IdleNum /\ IdleNames /\ IdleMap

Match ==
    /\ pc = "match"
    /\ matched' = match_template_to_csv(roster, df_in.rows)
    /\ pc' = "matched"
    /\ UNCHANGED <<csv_file, roster_file, roster, df_in, confirm, archive_dir,
                   archived, dist_dir, dist, um_report, todo, written>>
    /\ UNCHANGED <<hdrVars, aliasVars, numVars, nameVars, mapVars>>

NextMatch == Match

SpecMatch == InitMatch /\ [][NextMatch]_vars

---------------------------------------------------------------------------
(* Claims about match_template_to_csv, under SpecMatch.                    *)

TKey(i) == prepare_template_names(roster[i])
CKey(j) == prepare_csv_names(df_in.rows[j])
OutRowsOf(i) == {k \in 1..Len(matched) : matched[k].t = i}
Carriers(j) == {k \in 1..Len(matched) : matched[k].c = j}

\* C1: the output has exactly one row per roster row (none dropped, none
\* repeated), and every output row has one label of strict, loose, unmatched.
C1_OneRowPerRosterRow ==
    pc = "matched" =>
        /\ \A i \in 1..Len(roster) : Cardinality(OutRowsOf(i)) = 1
        /\ \A k \in 1..Len(matched) :
               matched[k]._MATCH_TYPE \in {"strict", "loose", "unmatched"}

HasStrictPartner(i) ==
    \E j \in 1..Len(df_in.rows) :
        /\ CKey(j)._C_MI # <<>>
        /\ CKey(j)._C_KEY_STRICT = TKey(i)._T_KEY_STRICT

HasLoosePartner(i) ==
    \E j \in 1..Len(df_in.rows) :
        CKey(j)._C_KEY_LOOSE = TKey(i)._T_KEY_LOOSE

\* C2: a roster row with a non-empty middle initial is never labelled loose:
\* it is strict when a transaction row with a middle initial has its strict
\* key, and unmatched otherwise, even if its loose key has a partner.
C2_MiddleInitialNeverLoose ==
    pc = "matched" =>
        \A i \in 1..Len(roster) :
            roster[i].T_MI # <<>> =>
                /\ OutRowsOf(i) # {}
                /\ \A k \in OutRowsOf(i) :
                       matched[k]._MATCH_TYPE =
                           IF HasStrictPartner(i) THEN "strict" ELSE "unmatched"

C2_Witness ==
    /\ pc = "matched"
    /\ \E i \in 1..Len(roster) :
           /\ roster[i].T_MI # <<>>
           /\ ~HasStrictPartner(i)
           /\ HasLoosePartner(i)
           /\ \E k \in OutRowsOf(i) : matched[k]._MATCH_TYPE = "unmatched"

RawTriplesDistinct ==
    \A i1, i2 \in 1..Len(roster) : i1 # i2 => roster[i1] # roster[i2]

StrictKeysDistinct ==
    \A i1, i2 \in 1..Len(roster) :
        i1 # i2 => TKey(i1)._T_KEY_STRICT # TKey(i2)._T_KEY_STRICT

\* C3 as stated: with pairwise distinct roster name triples, each
\* transaction row is carried by at most one output row, both passes
\* counted together.
C3_NoTransactionRowTwice ==
    (pc = "matched" /\ RawTriplesDistinct) =>
        \A j \in 1..Len(df_in.rows) : Cardinality(Carriers(j)) <= 1

\* C3 as amended: with pairwise distinct roster strict keys, each
\* transaction row is carried by at most one output row labelled strict and
\* at most one labelled loose.
C3_NoTransactionRowTwicePerPass ==
    (pc = "matched" /\ StrictKeysDistinct) =>
        \A j \in 1..Len(df_in.rows) : \A label \in {"strict", "loose"} :
            Cardinality({k \in Carriers(j) :
                            matched[k]._MATCH_TYPE = label}) <= 1

C3_Witness ==
    /\ pc = "matched"
    /\ StrictKeysDistinct
    /\ \E j \in 1..Len(df_in.rows) :
           /\ \E k \in Carriers(j) : matched[k]._MATCH_TYPE = "strict"
           /\ \E k \in Carriers(j) : matched[k]._MATCH_TYPE = "loose"

---------------------------------------------------------------------------
(* detect_header_row on its own.                                           *)

InitHeader ==
    /\ pc = "detect"
    /\ lines \in SeqUpTo(HeaderLines, MaxLines)
    /\ delim \in {",", ";"}
    /\ sniff_lines \in {2, SniffLinesDefault}
    /\ hdr_idx = [raised |-> FALSE, best_idx |-> -1]
    /\ roster = <<>> /\ df_in = [has_paydate |-> FALSE, rows |-> <<>>]
    /\ matched = <<>>
    /\ IdleMain /\ IdleAlias /\ IdleNum /\ IdleNames /\ IdleMap

DetectHeader ==
    /\ pc = "detect"
    /\ hdr_idx' = detect_header_row(lines, delim, EXPECT_NAMES, sniff_lines)
    /\ pc' = "detected"
    /\ UNCHANGED <<lines, delim, sniff_lines>>
    /\ UNCHANGED <<mainVars, aliasVars, numVars, nameVars, mapVars>>

NextHeader == DetectHeader

SpecHeader == InitHeader /\ [][NextHeader]_vars

\* The scanned line numbers (zero-based) and each line's score.
Window == {i \in 0..(Len(lines) - 1) : i < sniff_lines}
ExpSet == {norm(n) : n \in Range(EXPECT_NAMES)}
Score(i) == <<Hits(lines[i + 1], delim, ExpSet), Div(lines[i + 1], delim)>>
LexLess(a, b) == a[1] < b[1] \/ (a[1] = b[1] /\ a[2] < b[2])

\* C5: the result is the earliest line of the scan window whose pair
\* (hits, diversity) is lexicographically greatest; so a line with more hits
\* than every other scanned line is returned at its own index.
C5_HeaderIsEarliestBest ==
    (pc = "detected" /\ lines # <<>>) =>
        /\ ~hdr_idx.raised
        /\ hdr_idx.best_idx \in Window
        /\ \A j \in Window : ~LexLess(Score(hdr_idx.best_idx), Score(j))
        /\ \A j \in Window :
               j < hdr_idx.best_idx => LexLess(Score(j), Score(hdr_idx.best_idx))
        /\ \A h \in Window :
               (\A j \in Window \ {h} : Score(j)[1] < Score(h)[1])
                   => hdr_idx.best_idx = h

C5_Witness ==
    /\ pc = "detected"
    /\ hdr_idx.best_idx = 1
    /\ Score(0)[1] < Score(1)[1]
    /\ Len(lines) = 3 /\ sniff_lines > 2
    /\ Score(2) = Score(1)

---------------------------------------------------------------------------
(* rename_by_alias on its own.                                             *)

alias_map == build_alias_map(EXPECT_NAMES, ALIASES)

\* The table's labels are pairwise distinct, as those read_csv gives.
InitAlias ==
    /\ pc = "rename"
    /\ columns \in {cs \in SeqUpTo(ColumnLabels, MaxCols) :
                        \A i, j \in DOMAIN cs : i # j => cs[i] # cs[j]}
    /\ renamed = <<>>
    /\ roster = <<>> /\ df_in = [has_paydate |-> FALSE, rows |-> <<>>]
    /\ matched = <<>>
    /\ IdleMain /\ IdleHdr /\ IdleNum /\ IdleNames /\ IdleMap

RenameByAlias ==
    /\ pc = "rename"
    /\ \E first \in FirstHits(columns, alias_map) :
           renamed' = rename_by_alias(columns, alias_map, first)
    /\ pc' = "renamed"
    /\ UNCHANGED columns
    /\ UNCHANGED <<mainVars, hdrVars, numVars, nameVars, mapVars>>

NextAlias == RenameByAlias

SpecAlias == InitAlias /\ [][NextAlias]_vars

\* The columns whose normalized label is in canonical name k's alias set,
\* and the first of them in column order.
Matching(k) ==
    {i \in DOMAIN columns : norm(columns[i]) \in alias_map[k].variants}
FirstMatching(k) == CHOOSE i \in Matching(k) : \A j \in Matching(k) : i <= j

\* C6: for each canonical name the first column, in column order, whose
\* normalized label is in its alias set is renamed to it; every other
\* column keeps its label.
C6_FirstColumnRenamed ==
    pc = "renamed" =>
        /\ \A k \in DOMAIN alias_map :
               Matching(k) # {} =>
                   renamed[FirstMatching(k)] = alias_map[k].canon
        /\ \A i \in DOMAIN columns :
               (\A k \in DOMAIN alias_map :
                    Matching(k) = {} \/ FirstMatching(k) # i)
                   => renamed[i] = columns[i]

---------------------------------------------------------------------------
(* to_num on its own.                                                      *)

InitNum ==
    /\ pc = "to_num"
    /\ x \in {NaN} \cup SeqUpTo(NumChars, MaxNumLen)
    /\ num = [kind |-> "none", v |-> 0]
    /\ roster = <<>> /\ df_in = [has_paydate |-> FALSE, rows |-> <<>>]
    /\ matched = <<>>
    /\ IdleMain /\ IdleHdr /\ IdleAlias /\ IdleNames /\ IdleMap

ToNum ==
    /\ pc = "to_num"
    /\ num' = to_num(x)
    /\ pc' = "returned"
    /\ UNCHANGED x
    /\ UNCHANGED <<mainVars, hdrVars, aliasVars, nameVars, mapVars>>

NextNum == ToNum

SpecNum == InitNum /\ [][NextNum]_vars

\* The text left after removing '$', '%', ',' and whitespace.
Cleaned(v) == RemoveChars(v, {"$", "%", ",", " "})

\* A decimal number: an optional sign, digits, at most one decimal point,
\* at least one digit.
WritesDecimal(d) ==
    LET u == IF d # <<>> /\ d[1] \in {"+", "-"} THEN Tail(d) ELSE d
        points == {k \in DOMAIN u : u[k] = "."}
    IN  /\ \A k \in DOMAIN u : IsDigit(u[k]) \/ u[k] = "."
        /\ Cardinality(points) <= 1
        /\ Cardinality(DOMAIN u \ points) >= 1

\* The number a decimal text writes, as a float of the model.
DecimalValue(d) ==
    LET u == IF d[1] \in {"+", "-"} THEN Tail(d) ELSE d
        points == {k \in DOMAIN u : u[k] = "."}
        fracLen == IF points = {} THEN 0
                   ELSE Len(u) - (CHOOSE k \in points : TRUE)
    IN  Normalize(d[1] = "-", DigitsValue(RemoveChars(u, {"."})), 0 - fracLen)

\* C7: to_num returns 0.0 for a null, empty, whitespace-only or unparseable
\* argument, and otherwise the decimal number the cleaned text writes.
C7_ToNumDecimalOrZero ==
    pc = "returned" =>
        num = IF x = NaN \/ Strip(x) = <<>> \/ ~WritesDecimal(Cleaned(x))
              THEN Zero
              ELSE DecimalValue(Cleaned(x))

---------------------------------------------------------------------------
(* A run of main.                                                          *)

Init ==
    /\ pc = "start"
    /\ csv_file \in CsvFiles
    /\ roster_file \in RosterFiles
    /\ roster = <<>>
    /\ df_in = [has_paydate |-> FALSE, rows |-> <<>>]
    /\ matched = <<>>
    /\ confirm = <<>>
    /\ archive_dir = FALSE
    /\ archived = 0
    /\ dist_dir = FALSE
    /\ dist = <<>>
    /\ um_report = <<>>
    /\ todo = <<>>
    /\ written = 0
    /\ IdleHdr /\ IdleAlias /\ IdleNum /\ IdleNames /\ IdleMap

\* Lines 287-290: the path is checked first.
CheckCsvPath ==
    /\ pc = "start"
    /\ pc' = IF ~csv_file.exists THEN "csv_not_found" ELSE "load"
    /\ UNCHANGED <<mainVars, hdrVars, aliasVars, numVars, nameVars, mapVars>>

\* Lines 293-328: header detection (which raises on a file without lines),
\* load, alias normalisation, and the printed totals.
LoadCsv ==
    /\ pc = "load"
    /\ IF csv_file.empty
       THEN pc' = "raised" /\ UNCHANGED df_in
       ELSE /\ df_in' = [has_paydate |-> csv_file.has_paydate,
                         rows |-> csv_file.rows]
            /\ pc' = "confirm"
    /\ UNCHANGED <<csv_file, roster_file, roster, matched, confirm,
                   archive_dir, archived, dist_dir, dist, um_report, todo,
                   written>>
    /\ UNCHANGED <<hdrVars, aliasVars, numVars, nameVars, mapVars>>

\* Lines 330-333: the confirmation prompt.
Confirm ==
    /\ pc = "confirm"
    /\ \E answer \in Answers :
           /\ confirm' = LowerStr(Strip(answer))
           /\ pc' = after_confirm(LowerStr(Strip(answer)))
    /\ UNCHANGED <<csv_file, roster_file, roster, df_in, matched, archive_dir,
                   archived, dist_dir, dist, um_report, todo, written>>
    /\ UNCHANGED <<hdrVars, aliasVars, numVars, nameVars, mapVars>>

\* Lines 336-339: the archive directory and the copy of the input.
Archive ==
    /\ pc = "archive"
    /\ archive_dir' = TRUE
    /\ archived' = copy2(archived)
    /\ pc' = "roster"
    /\ UNCHANGED <<csv_file, roster_file, roster, df_in, matched, confirm,
                   dist_dir, dist, um_report, todo, written>>
    /\ UNCHANGED <<hdrVars, aliasVars, numVars, nameVars, mapVars>>

\* Lines 342-346: the roster is looked for and read.
FindRoster ==
    /\ pc = "roster"
    /\ roster' = roster_file.rows
    /\ pc' = after_find_roster(roster_file.exists)
    /\ UNCHANGED <<csv_file, roster_file, df_in, matched, confirm, archive_dir,
                   archived, dist_dir, dist, um_report, todo, written>>
    /\ UNCHANGED <<hdrVars, aliasVars, numVars, nameVars, mapVars>>

\* Lines 348-367: match, field mapping, and the upload frame.
MatchAndMap ==
    /\ pc = "match"
    /\ matched' = match_template_to_csv(roster, df_in.rows)
    /\ pc' = "mkdist"
    /\ UNCHANGED <<csv_file, roster_file, roster, df_in, confirm, archive_dir,
                   archived, dist_dir, dist, um_report, todo, written>>
    /\ UNCHANGED <<hdrVars, aliasVars, numVars, nameVars, mapVars>>

\* Lines 370-378: dist/ is made, then the upload frame is tested for its
\* Check Date column, and its rows are grouped.
MakeDist ==
    /\ pc = "mkdist"
    /\ dist_dir' = TRUE
    /\ IF T_CHECKDATE \notin Range(upload_columns)
       THEN pc' = "no_check_date" /\ UNCHANGED todo
       ELSE /\ todo' = groups(matched, df_in)
            /\ pc' = "write"
    /\ UNCHANGED <<csv_file, roster_file, roster, df_in, matched, confirm,
                   archive_dir, archived, dist, um_report, written>>
    /\ UNCHANGED <<hdrVars, aliasVars, numVars, nameVars, mapVars>>

\* Lines 379-391: one turn of the loop over the groups.
WriteGroup ==
    /\ pc = "write"
    /\ todo # <<>>
    /\ dist' = to_csv(dist, date_str(Head(todo)),
                      group(matched, df_in, Head(todo)))
    /\ written' = written + 1
    /\ todo' = Tail(todo)
    /\ UNCHANGED <<pc, csv_file, roster_file, roster, df_in, matched, confirm,
                   archive_dir, archived, dist_dir, um_report>>
    /\ UNCHANGED <<hdrVars, aliasVars, numVars, nameVars, mapVars>>

\* Lines 393-406: the unmatched report, written when a row is unmatched.
WriteUnmatched ==
    /\ pc = "write"
    /\ todo = <<>>
    /\ um_report' = Labelled(matched, {"unmatched"})
    /\ pc' = "finished"
    /\ UNCHANGED <<csv_file, roster_file, roster, df_in, matched, confirm,
                   archive_dir, archived, dist_dir, dist, todo, written>>
    /\ UNCHANGED <<hdrVars, aliasVars, numVars, nameVars, mapVars>>

Next ==
    \/ CheckCsvPath
    \/ LoadCsv
    \/ Confirm
    \/ Archive
    \/ FindRoster
    \/ MatchAndMap
    \/ MakeDist
    \/ WriteGroup
    \/ WriteUnmatched

Spec == Init /\ [][Next]_vars

---------------------------------------------------------------------------
(* Claims about a run of main, under Spec.                                 *)

Active == {k \in DOMAIN matched : matched[k]._MATCH_TYPE \in {"strict", "loose"}}
FilesHolding(k) == {n \in DOMAIN dist : k \in Range(dist[n])}
NothingWritten == DOMAIN dist = {} /\ um_report = <<>>
Ended ==
    pc \in {"csv_not_found", "raised", "declined", "no_roster",
            "no_check_date", "finished"}

\* C4: after a run that reached the write step, every row labelled strict
\* or loose is in exactly one output file and no unmatched row is in any;
\* the file of a date (or of "unknown") holds exactly the matched rows whose
\* check date is that date (or is missing or unparseable): none is lost.
C4_EveryMatchedRowInOneFile ==
    pc = "finished" =>
        /\ \A k \in Active : Cardinality(FilesHolding(k)) = 1
        /\ \A k \in DOMAIN matched \ Active : FilesHolding(k) = {}
        /\ \A n \in DOMAIN dist :
               Range(dist[n]) =
                   {k \in Active : date_str(CheckDate(matched, df_in, k)) = n}

\* C8: once the user has given an answer other than '', 'y' or 'yes' (as
\* main compares it: stripped and lowercased), nothing is ever created: no
\* archive directory or copy, no output directory, no output file, no
\* unmatched report.
C8_DeclineHasNoSideEffects ==
    confirm \notin {<<>>, <<"y">>, <<"y", "e", "s">>} =>
        /\ ~archive_dir /\ archived = 0
        /\ ~dist_dir /\ NothingWritten

C8_Witness == pc = "declined" /\ confirm = <<"n", "o">>

\* C9 as stated: a run that ended with the transaction file or the roster
\* file missing has written nothing: no archive copy, no output file, no
\* unmatched report.
C9_MissingInputNothingWritten ==
    (Ended /\ (~csv_file.exists \/ ~roster_file.exists)) =>
        archived = 0 /\ NothingWritten

\* C9 as amended: with the transaction file missing nothing at all is
\* created; with the roster missing no output directory, output file or
\* unmatched report is created, but a run that got as far as looking for
\* the roster has already made its archive copy.
C9_MissingInputNoOutput ==
    /\ ~csv_file.exists =>
           ~archive_dir /\ archived = 0 /\ ~dist_dir /\ NothingWritten
    /\ ~roster_file.exists => ~dist_dir /\ NothingWritten
    /\ pc = "no_roster" => archive_dir /\ archived = 1

C9_Witness ==
    pc = "no_roster" /\ ~roster_file.exists /\ archived = 1 /\ NothingWritten

\* C10: in a confirmed run the archive copy exists before dist/, an output
\* file or the unmatched report does, and the run makes exactly one copy
\* whatever follows (any number of output files, or an abort).
C10_OneArchiveCopyBeforeOutputs ==
    /\ archived <= 1
    /\ (dist_dir \/ ~NothingWritten) => archived = 1
    /\ pc \in {"roster", "no_roster", "match", "mkdist", "write", "finished"}
           => archived = 1

C10_Witness ==
    pc = "finished" /\ Cardinality(DOMAIN dist) = 2 /\ archived = 1

\* C11: a confirmed run whose transaction table has no pay-date column
\* returns early: it writes no output upload file and does not go on to the
\* end of main.
C11_NoPayDateNoUpload ==
    (csv_file.exists /\ ~csv_file.empty /\ ~csv_file.has_paydate) =>
        DOMAIN dist = {} /\ pc # "finished"

---------------------------------------------------------------------------
(* prepare_template_names and prepare_csv_names on their own: the keys of  *)
(* one name, with and without a suffix after the last name, and the match  *)
(* of the roster row without the suffix to the transaction row with it.    *)

\* Every writing of s in upper and lower case letters.
RECURSIVE CaseForms(_)
CaseForms(s) ==
    IF s = <<>> THEN {<<>>}
    ELSE {<<c>> \o r : c \in {Upper(Head(s)), Lower(Head(s))},
                       r \in CaseForms(Tail(s))}

\* What follows the last name: a space or a comma and a space, the suffix
\* in some letter case, and a period or none.
SuffixForms ==
    {sep \o w \o dot :
        sep \in {<<" ">>, <<",", " ">>},
        w \in UNION {CaseForms(S) : S \in _SUFFIXES},
        dot \in {<<>>, <<".">>}}

LastNames ==
    {<<>>, <<"D", "o", "e">>, <<"O", "'", "D", "e", "a", "-", "L", "i">>, <<"S", "t", ".", " ", "J", "o", "h", "n">>, <<"d", "e", " ", " ", "l", "a", " ", "P", "a", "z">>, <<"D", "o", "e", " ", "J", "r">>, <<"D", "o", "e", " ", "i", "v", ".">>}

Brown == <<"B", "r", "o", "w", "n">>
MaxTokens == 3
FirstTokens == {<<"M", "a", "r", "y">>, <<"A", "n", "n">>, <<"a">>, <<"B", ".">>, <<"c", ",">>, <<".">>}

\* The first-name fields of the transaction side: up to MaxTokens tokens,
\* one or two spaces apart.
FirstFields ==
    {Join(ts, sep) : ts \in SeqUpTo(FirstTokens, MaxTokens),
                     sep \in {<<" ">>, <<" ", " ">>}}

NameInputs ==
    {[last |-> l, suffix |-> w, first |-> f, mi |-> m] :
        l \in LastNames, w \in SuffixForms,
        f \in {<<"A", "l", "e", "x">>, JoA}, m \in {<<>>, <<"a">>}}
    \cup {[last |-> Brown, suffix |-> <<>>, first |-> f, mi |-> <<>>] :
             f \in FirstFields}

InitNames ==
    /\ pc = "prepare"
    /\ name_in \in NameInputs
    /\ name_out = <<>>
    /\ roster = <<>>
    /\ df_in = [has_paydate |-> FALSE, rows |-> <<>>]
    /\ matched = <<>>
    /\ df = <<>> /\ filled = <<>>
    /\ IdleMain /\ IdleHdr /\ IdleAlias /\ IdleNum

PrepareNames ==
    /\ pc = "prepare"
    /\ LET t == RosterRow(name_in.first, name_in.mi, name_in.last)
           ts == RosterRow(name_in.first, name_in.mi,
                           name_in.last \o name_in.suffix)
           c == CsvRow(name_in.last, name_in.first, NaN)
           cs == CsvRow(name_in.last \o name_in.suffix, name_in.first, NaN)
       IN  name_out' = [t |-> prepare_template_names(t),
                        ts |-> prepare_template_names(ts),
                        c |-> prepare_csv_names(c),
                        cs |-> prepare_csv_names(cs),
                        m |-> match_template_to_csv(<<t>>, <<cs>>)]
    /\ pc' = "prepared"
    /\ UNCHANGED <<mainVars, hdrVars, aliasVars, numVars, name_in, mapVars>>

NextNames == PrepareNames

SpecNames == InitNames /\ [][NextNames]_vars

\* The last name's final token, periods and commas aside, is no suffix.
FinalTokenNotSuffix(l) ==
    LET parts == SplitWs(RemoveChars(l, {".", ","}))
    IN  parts = <<>> \/ UpperStr(parts[Len(parts)]) \notin _SUFFIXES

\* C12: for a last name L whose final token is not a suffix, and a suffix
\* in any letter case, with or without a period after it and a comma
\* before it, the loose and strict keys of 'L S' are those of L, on the
\* roster side and on the transaction side; and a roster row with a
\* one-word first name and no middle initial matches, loosely, the
\* transaction row of the same names with the suffix.
C12_SuffixDoesNotChangeKeys ==
    (pc = "prepared" /\ name_in.suffix # <<>>
                    /\ FinalTokenNotSuffix(name_in.last)) =>
        /\ name_out.ts._T_KEY_LOOSE = name_out.t._T_KEY_LOOSE
        /\ name_out.ts._T_KEY_STRICT = name_out.t._T_KEY_STRICT
        /\ name_out.cs._C_KEY_LOOSE = name_out.c._C_KEY_LOOSE
        /\ name_out.cs._C_KEY_STRICT = name_out.c._C_KEY_STRICT
        /\ (name_in.mi = <<>> /\ Len(SplitWs(name_in.first)) = 1) =>
               /\ Len(name_out.m) = 1
               /\ name_out.m[1]._MATCH_TYPE = "loose"

C12_Witness ==
    /\ pc = "prepared"
    /\ name_in.last = <<"D", "o", "e">>
    /\ name_in.suffix = <<",", " ", "j", "R", ".">>
    /\ name_in.first = <<"A", "l", "e", "x">> /\ name_in.mi = <<>>
    /\ name_out.cs._C_KEY_LOOSE = <<"D", "O", "E", "|", "A", "L", "E", "X">>
    /\ name_out.m[1]._MATCH_TYPE = "loose"

---------------------------------------------------------------------------
(* Which of several transaction rows of one key is joined, under           *)
(* SpecMatch.                                                              *)

\* Transaction row j is the first, in source order, of the rows with a
\* middle initial that have the strict key sk; of all rows that have the
\* loose key lk.
FirstStrict(j, sk) ==
    /\ CKey(j)._C_MI # <<>> /\ CKey(j)._C_KEY_STRICT = sk
    /\ \A j2 \in 1..(j - 1) :
           ~(CKey(j2)._C_MI # <<>> /\ CKey(j2)._C_KEY_STRICT = sk)
FirstLoose(j, lk) ==
    /\ CKey(j)._C_KEY_LOOSE = lk
    /\ \A j2 \in 1..(j - 1) : CKey(j2)._C_KEY_LOOSE # lk

\* An output row labelled strict carries the first row of its strict key,
\* one labelled loose the first row of its loose key.
JoinedRowIsFirst ==
    \A k \in 1..Len(matched) :
        /\ matched[k]._MATCH_TYPE = "strict" =>
               FirstStrict(matched[k].c, TKey(matched[k].t)._T_KEY_STRICT)
        /\ matched[k]._MATCH_TYPE = "loose" =>
               FirstLoose(matched[k].c, TKey(matched[k].t)._T_KEY_LOOSE)

\* C13 as stated: the joined row is the first of its key in its pass, and
\* a later row with that key is joined to no roster row at all.
C13_FirstRowOfKeyJoined ==
    pc = "matched" =>
        /\ JoinedRowIsFirst
        /\ \A k \in 1..Len(matched), j \in 1..Len(df_in.rows) :
               /\ (/\ matched[k]._MATCH_TYPE = "strict"
                   /\ j > matched[k].c /\ CKey(j)._C_MI # <<>>
                   /\ CKey(j)._C_KEY_STRICT = CKey(matched[k].c)._C_KEY_STRICT)
                      => Carriers(j) = {}
               /\ (/\ matched[k]._MATCH_TYPE = "loose"
                   /\ j > matched[k].c
                   /\ CKey(j)._C_KEY_LOOSE = CKey(matched[k].c)._C_KEY_LOOSE)
                      => Carriers(j) = {}

\* C13 as amended: the joined row is the first of its key in its pass; a
\* later row with that strict key (and a middle initial) is joined to no
\* roster row, and a later row with that loose key is joined to none in
\* the loose pass (it can be joined in the strict pass under its own
\* strict key).
C13_FirstRowOfKeyJoinedPerPass ==
    pc = "matched" =>
        /\ JoinedRowIsFirst
        /\ \A k \in 1..Len(matched), j \in 1..Len(df_in.rows) :
               /\ (/\ matched[k]._MATCH_TYPE = "strict"
                   /\ j > matched[k].c /\ CKey(j)._C_MI # <<>>
                   /\ CKey(j)._C_KEY_STRICT = CKey(matched[k].c)._C_KEY_STRICT)
                      => Carriers(j) = {}
               /\ (/\ matched[k]._MATCH_TYPE = "loose"
                   /\ j > matched[k].c
                   /\ CKey(j)._C_KEY_LOOSE = CKey(matched[k].c)._C_KEY_LOOSE)
                      => \A k2 \in Carriers(j) :
                             matched[k2]._MATCH_TYPE = "strict"

C13_Witness ==
    /\ pc = "matched"
    /\ Len(df_in.rows) = 2
    /\ \E k \in 1..Len(matched) :
           /\ matched[k]._MATCH_TYPE = "loose"
           /\ matched[k].c = 1
           /\ CKey(2)._C_KEY_LOOSE = CKey(1)._C_KEY_LOOSE
           /\ df_in.rows[2] # df_in.rows[1]
           /\ \E k2 \in Carriers(2) : matched[k2]._MATCH_TYPE = "strict"

---------------------------------------------------------------------------
(* The split of the transaction side's first-name field, under SpecNames.  *)

\* A single letter, optionally followed by a period.
LetterToken(tok) ==
    /\ Len(tok) \in {1, 2} /\ IsAlpha(tok[1])
    /\ Len(tok) = 2 => tok[2] = "."

\* C14: the field is split without error; when it has at least two
\* whitespace-separated tokens and the second is a single letter,
\* optionally followed by a period, the first name is the first token and
\* the middle initial that letter in upper case; otherwise the first name
\* is all tokens joined by single spaces and the middle initial is empty
\* (first names compared with periods and commas left out). 'Mary Ann'
\* stays a two-word first name and the roster row (Mary Ann, '', Brown)
\* matches it loosely.
C14_FirstFieldSplit ==
    (pc = "prepared" /\ name_in.suffix = <<>>) =>
        LET tokens == SplitWs(name_in.first)
            c == name_out.c
        IN  /\ ~c.raised
            /\ IF Len(tokens) >= 2 /\ LetterToken(tokens[2])
               THEN /\ c._C_FIRST = RemoveChars(tokens[1], {".", ","})
                    /\ c._C_MI = <<Upper(tokens[2][1])>>
               ELSE /\ c._C_FIRST =
                           RemoveChars(Join(tokens, <<" ">>), {".", ","})
                    /\ c._C_MI = <<>>
            /\ name_in.first = <<"M", "a", "r", "y", " ", "A", "n", "n">> =>
                   /\ c._C_FIRST = <<"M", "a", "r", "y", " ", "A", "n", "n">>
                   /\ name_out.m[1]._MATCH_TYPE = "loose"

---------------------------------------------------------------------------
(* The file without a header, under SpecHeader.                            *)

\* Line i (zero-based) has non-whitespace content.
HasContent(i) == Strip(lines[i + 1]) # <<>>
ContentLines == {i \in 0..(Len(lines) - 1) : HasContent(i)}

\* C15: on a file with no line of non-whitespace content (no line at all,
\* or blank lines only) detect_header_row raises instead of returning an
\* index; on a file with such a line it returns an index, and when no
\* scanned line has a hit that index is the first line with content.
C15_BlankFileRaises ==
    pc = "detected" =>
        /\ ContentLines = {} => hdr_idx.raised
        /\ ContentLines # {} =>
               /\ ~hdr_idx.raised
               /\ (\A j \in Window : Score(j)[1] = 0) =>
                      /\ hdr_idx.best_idx \in ContentLines
                      /\ \A i \in ContentLines : hdr_idx.best_idx <= i

---------------------------------------------------------------------------
(* apply_field_mapping on its own.                                         *)

\* Raw CSV columns (post-alias).
RAW_PRETAX == "401k"
RAW_PRETAX_CATCHUP == "401k Catchup"
RAW_ROTH == "Roth 401K"
RAW_ROTH_CATCHUP == "Roth Catchup"
RAW_SAFE_HARBOR_NE == "401K Match 2"
RAW_GROSS == "Gross Pay"
RAW_HRS_REG == "Regular Hours"
RAW_HRS_OT == "Overtime Hours"
RAW_HRS_PTO == "Vacation/PTO Hours"
RAW_PAYDATE == "Pay Date"

\* Template/output column names.
T_PRETAX == "Pretax"
T_PRETAX_CU == "Pre-Tax Catchup"
T_ROTH == "Roth"
T_ROTH_CU == "Roth Catchup"
T_SAFEHARB == "Safe Harbor Non-Elective"
T_COMP == "Current Period Compensation"
T_HOURS_WORKED == "Current Period Hours Worked"

\* The raw columns apply_field_mapping makes sure of, in its order.
EnsuredColumns ==
    <<RAW_HRS_REG, RAW_HRS_OT, RAW_HRS_PTO, RAW_PRETAX, RAW_PRETAX_CATCHUP,
      RAW_ROTH, RAW_ROTH_CATCHUP, RAW_SAFE_HARBOR_NE, RAW_GROSS, RAW_PAYDATE>>

\* The numeric outputs and the raw column each is read from.
NumericMapping ==
    <<[t |-> T_PRETAX, raw |-> RAW_PRETAX],
      [t |-> T_PRETAX_CU, raw |-> RAW_PRETAX_CATCHUP],
      [t |-> T_ROTH, raw |-> RAW_ROTH],
      [t |-> T_ROTH_CU, raw |-> RAW_ROTH_CATCHUP],
      [t |-> T_SAFEHARB, raw |-> RAW_SAFE_HARBOR_NE],
      [t |-> T_COMP, raw |-> RAW_GROSS]>>

\* 10^n
RECURSIVE Pow10(_)
Pow10(n) == IF n = 0 THEN 1 ELSE 10 * Pow10(n - 1)

\* a + b on floats (decimal, without binary rounding).
FloatAdd(a, b) ==
    IF a.kind = "nan" \/ b.kind = "nan"
    THEN [kind |-> "nan", neg |-> FALSE, m |-> 0, e |-> 0]
    ELSE IF a.kind = "inf" /\ b.kind = "inf"
    THEN IF a.neg = b.neg THEN a
         ELSE [kind |-> "nan", neg |-> FALSE, m |-> 0, e |-> 0]
    ELSE IF a.kind = "inf" THEN a
    ELSE IF b.kind = "inf" THEN b
    ELSE LET e == IF a.e < b.e THEN a.e ELSE b.e
             Signed(f) == (IF f.neg THEN -1 ELSE 1) * f.m * Pow10(f.e - e)
             sum == Signed(a) + Signed(b)
         IN  Normalize(sum < 0, IF sum < 0 THEN 0 - sum ELSE sum, e)

\* to_num of a cell: a text, a missing value, or the float 0.0 of a filled
\* column (whose str is "0.0").
to_num_cell(v) == to_num(IF v = Float0 THEN StrOf(v) ELSE v)

hours_sum_no_pto(reg, ot, pto) == FloatAdd(reg, ot)

\* reg + ot + pto
hours_sum(reg, ot, pto) == FloatAdd(FloatAdd(reg, ot), pto)

\* tab: [columns: the labels of the table, rows: one function from labels
\* to cells per row]. The result has one function per row, from the
\* output columns to their values.
apply_field_mapping(tab) ==
    LET out_columns == tab.columns \cup Range(EnsuredColumns)
        Cell(r, col) == IF col \in tab.columns THEN r[col] ELSE Float0
        Hours(r, col) ==
            IF col \in out_columns THEN to_num_cell(Cell(r, col)) ELSE Zero
        Numeric(r, t) ==
            LET n == CHOOSE n \in DOMAIN NumericMapping :
                         NumericMapping[n].t = t
            IN  to_num_cell(Cell(r, NumericMapping[n].raw))
        Out(r) ==
            [t \in {NumericMapping[n].t : n \in DOMAIN NumericMapping}
                    \cup {T_HOURS_WORKED, T_CHECKDATE} |->
                IF t = T_HOURS_WORKED
                THEN hours_sum(Hours(r, RAW_HRS_REG), Hours(r, RAW_HRS_OT),
                               Hours(r, RAW_HRS_PTO))
                ELSE IF t = T_CHECKDATE THEN Cell(r, RAW_PAYDATE)
                ELSE Numeric(r, t)]
    IN  [k \in 1..Len(tab.rows) |-> Out(tab.rows[k])]

\* The tables given to apply_field_mapping: one row, at most MaxAbsent of
\* the raw columns absent.
MaxAbsent == 1

HoursTexts == {NaN, <<" ", "2", ",", "0", "0", "0", " ">>, <<"-", "1", ".", "5">>}
AmountTexts == <<<<"$", "1", ",", "2", "3", "4", ".", "5", "0">>, NaN, <<"-", "1">>, <<"0", ".", "5">>, <<>>, <<"i", "n", "f">>>>

MappingTables ==
    {[columns |-> Range(EnsuredColumns) \ absent,
      rows |-> <<[c \in Range(EnsuredColumns) \ absent |->
                    IF c = RAW_HRS_REG THEN reg
                    ELSE IF c = RAW_HRS_OT THEN ot
                    ELSE IF c = RAW_HRS_PTO THEN pto
                    ELSE IF c = RAW_PAYDATE THEN date
                    ELSE LET n == CHOOSE n \in DOMAIN NumericMapping :
                                      NumericMapping[n].raw = c
                         IN  AmountTexts[((n + rot) % Len(AmountTexts)) + 1]]>>] :
        absent \in {a \in SUBSET Range(EnsuredColumns) :
                       Cardinality(a) <= MaxAbsent},
        reg \in HoursTexts, ot \in HoursTexts, pto \in HoursTexts,
        date \in {D0905, NaN}, rot \in 0..(Len(AmountTexts) - 1)}

InitMap ==
    /\ pc = "map"
    /\ df \in MappingTables
    /\ filled = <<>>
    /\ roster = <<>>
    /\ df_in = [has_paydate |-> FALSE, rows |-> <<>>]
    /\ matched = <<>>
    /\ IdleMain /\ IdleHdr /\ IdleAlias /\ IdleNum /\ IdleNames

ApplyFieldMapping ==
    /\ pc = "map"
    /\ filled' = apply_field_mapping(df)
    /\ pc' = "mapped"
    /\ UNCHANGED <<mainVars, hdrVars, aliasVars, numVars, nameVars, df>>

NextMap == ApplyFieldMapping

SpecMap == InitMap /\ [][NextMap]_vars

\* to_num of row k's raw column, zero when the table has no such column.
RawNum(k, col) ==
    IF col \in df.columns THEN to_num(df.rows[k][col]) ELSE Zero

\* C16: in every output row the hours worked are to_num(regular) +
\* to_num(overtime) + to_num(PTO), each contribution and the compensation
\* is to_num of its raw column, an absent raw column counting as zero
\* (the table is mapped whatever columns are absent), and the check date
\* is the raw pay date unchanged.
C16_FieldMappingSums ==
    pc = "mapped" =>
        /\ Len(filled) = Len(df.rows)
        /\ \A k \in 1..Len(df.rows) :
               /\ filled[k][T_HOURS_WORKED] =
                      FloatAdd(FloatAdd(RawNum(k, RAW_HRS_REG),
                                        RawNum(k, RAW_HRS_OT)),
                               RawNum(k, RAW_HRS_PTO))
               /\ filled[k][T_PRETAX] = RawNum(k, RAW_PRETAX)
               /\ filled[k][T_PRETAX_CU] = RawNum(k, RAW_PRETAX_CATCHUP)
               /\ filled[k][T_ROTH] = RawNum(k, RAW_ROTH)
               /\ filled[k][T_ROTH_CU] = RawNum(k, RAW_ROTH_CATCHUP)
               /\ filled[k][T_SAFEHARB] = RawNum(k, RAW_SAFE_HARBOR_NE)
               /\ filled[k][T_COMP] = RawNum(k, RAW_GROSS)
               /\ RAW_PAYDATE \in df.columns =>
                      filled[k][T_CHECKDATE] = df.rows[k][RAW_PAYDATE]

C16_Witness ==
    /\ pc = "mapped"
    /\ RAW_HRS_PTO \notin df.columns
    /\ df.rows[1][RAW_HRS_REG] = <<" ", "2", ",", "0", "0", "0", " ">>
    /\ df.rows[1][RAW_HRS_OT] = <<"-", "1", ".", "5">>
    /\ filled[1][T_HOURS_WORKED] =
           [kind |-> "float", neg |-> FALSE, m |-> 19985, e |-> -1]
    /\ filled[1][T_PRETAX] =
           [kind |-> "float", neg |-> FALSE, m |-> 12345, e |-> -1]
    /\ filled[1][T_CHECKDATE] = D0905

===========================================================================
